---- MODULE Spec2Model ----
(***************************************************************************)
(* FIP Reader (src/fip_reader.py): a script that reads a FAIR               *)
(* Implementation Profile from a .trig or .json file, fetches its           *)
(* declarations from the nanopublication network, and prints them by FAIR  *)
(* principle.                                                               *)
(*                                                                         *)
(* Strings are sequences of one-character strings, so that the substring   *)
(* tests, splits and case conversions of the program are computed.  An RDF *)
(* graph is a set of quads, wrapped in a record that also represents       *)
(* Python's None.  A dict is a record, which may lack fields.              *)
(*                                                                         *)
(* Spec is a run of the script: a step is what the script does up to its   *)
(* next HTTP GET, up to the return of fetch_nanopub, or up to its exit.    *)
(* SpecCap is the --fetch run against large index graphs.  SpecResolver,   *)
(* SpecOrganize and SpecParse call extract_declarations_from_index, the    *)
(* two organizers and parse_declaration on inputs of their own.  SpecJson  *)
(* is the run of the script on JSON documents, and SpecClassify gives one  *)
(* question of FIP_QUESTIONS to both organizer pipelines.                  *)
(***************************************************************************)
EXTENDS Integers, Sequences, FiniteSets, TLC

\* ------------------------------------------------------------------ bounds
MaxIndexQuads == 2      \* quads of an index graph given to the resolver
MaxDecls == 2           \* records of a list given to an organizer
MaxReplies == 2         \* replies of a JSON document
MaxTail == 4            \* characters after the namespace of a question URI
MaxRunUris == 1         \* declaration URIs a served index graph may list
CapN == 52              \* declaration URIs of the large index graphs

\* ----------------------------------------------------------------- strings
None == <<"None">>      \* Python's None where a string is expected

Range(f) == {f[k] : k \in DOMAIN f}

UPPERCASE == (* ABCDEFGHIJKLMNOPQRSTUVWXYZ *) <<"A","B","C","D","E","F","G","H","I","J","K","L","M","N","O","P","Q","R","S","T","U","V","W","X","Y","Z">>
LOWERCASE == (* abcdefghijklmnopqrstuvwxyz *) <<"a","b","c","d","e","f","g","h","i","j","k","l","m","n","o","p","q","r","s","t","u","v","w","x","y","z">>

\* the lower-case and upper-case form of each letter
ToLower == [c \in Range(UPPERCASE) |-> LOWERCASE[CHOOSE k \in 1..26 : UPPERCASE[k] = c]]
ToUpper == [c \in Range(LOWERCASE) |-> UPPERCASE[CHOOSE k \in 1..26 : LOWERCASE[k] = c]]

LowerChar(c) == IF c \in DOMAIN ToLower THEN ToLower[c] ELSE c
UpperChar(c) == IF c \in DOMAIN ToUpper THEN ToUpper[c] ELSE c

\* str.lower() and str.upper()
Lower(s) == [k \in 1..Len(s) |-> LowerChar(s[k])]
Upper(s) == [k \in 1..Len(s) |-> UpperChar(s[k])]

\* the positions at which sub occurs in s
Occurrences(s, sub) ==
    {k \in 1..(Len(s) - Len(sub) + 1) : \A j \in 1..Len(sub) : s[k + j - 1] = sub[j]}

\* Python's  sub in s
Contains(s, sub) == Occurrences(s, sub) # {}

SetMax(S) == CHOOSE m \in S : \A k \in S : k <= m

\* s.split(sep)[-1]: what follows the last occurrence of sep, or s itself
SplitLast(s, sep) ==
    IF Contains(s, sep)
    THEN SubSeq(s, SetMax(Occurrences(s, sep)) + Len(sep), Len(s))
    ELSE s

\* s.rsplit(sep, 1) when sep occurs in s: <<before the last sep, after it>>
RSplit1(s, sep) ==
    LET k == SetMax(Occurrences(s, sep))
    IN  <<SubSeq(s, 1, k - 1), SubSeq(s, k + Len(sep), Len(s))>>

\* s[:n]
Prefix(s, n) == SubSeq(s, 1, IF Len(s) < n THEN Len(s) ELSE n)

\* truth value of an optional string: None and "" are false
Truthy(s) == s # None /\ s # <<>>

\* the sequences of at most n elements of S
SeqsUpTo(S, n) == UNION {[1..k -> S] : k \in 0..n}

\* the subsets of at most n elements of S
SubsetsUpTo(S, n) ==
    UNION {{Range(q) : q \in [1..k -> S]} : k \in 0..n}

\* the orders in which the elements of a finite set can be iterated
Orders(S) ==
    {q \in [1..Cardinality(S) -> S] : \A a, b \in 1..Cardinality(S) : q[a] = q[b] => a = b}

\* one iteration order of a finite set, four elements at a time
First(S) == CHOOSE y \in S : TRUE

RECURSIVE SetToSeq(_)
SetToSeq(S) ==
    IF S = {} THEN <<>>
    ELSE LET a == First(S)
             b == First(S \ {a})
             c == First(S \ {a, b})
             d == First(S \ {a, b, c})
         IN  CASE Cardinality(S) = 1 -> <<a>>
               [] Cardinality(S) = 2 -> <<a, b>>
               [] Cardinality(S) = 3 -> <<a, b, c>>
               [] OTHER -> <<a, b, c, d>> \o SetToSeq(S \ {a, b, c, d})

\* ------------------------------------------------------------------ tables
\* the keys of FAIR_PRINCIPLES in declaration order (the descriptions are
\* display text only)
FAIR_PRINCIPLES ==
    << (* F1 *) <<"F","1">>, (* F2 *) <<"F","2">>, (* F3 *) <<"F","3">>, (* F4 *) <<"F","4">>, (* A1 *) <<"A","1">>, (* A1.1 *) <<"A","1",".","1">>, (* A1.2 *) <<"A","1",".","2">>, (* A2 *) <<"A","2">>,
       (* I1 *) <<"I","1">>, (* I2 *) <<"I","2">>, (* I3 *) <<"I","3">>, (* R1 *) <<"R","1">>, (* R1.1 *) <<"R","1",".","1">>, (* R1.2 *) <<"R","1",".","2">>, (* R1.3 *) <<"R","1",".","3">> >>

\* the literal key list both organizers initialise their table from
PRINCIPLE_KEYS ==
    << (* F1 *) <<"F","1">>, (* F2 *) <<"F","2">>, (* F3 *) <<"F","3">>, (* F4 *) <<"F","4">>, (* A1 *) <<"A","1">>, (* A1.1 *) <<"A","1",".","1">>, (* A1.2 *) <<"A","1",".","2">>, (* A2 *) <<"A","2">>,
       (* I1 *) <<"I","1">>, (* I2 *) <<"I","2">>, (* I3 *) <<"I","3">>, (* R1 *) <<"R","1">>, (* R1.1 *) <<"R","1",".","1">>, (* R1.2 *) <<"R","1",".","2">>, (* R1.3 *) <<"R","1",".","3">> >>

QPrefix == (* FIP-Question- *) <<"F","I","P","-","Q","u","e","s","t","i","o","n","-">>
DataStr == (* Data *) <<"D","a","t","a">>
MetadataStr == (* Metadata *) <<"M","e","t","a","d","a","t","a">>

QEntry(id, principle, dtype) == [key |-> QPrefix \o id, principle |-> principle, dtype |-> dtype]

\* FIP_QUESTIONS in declaration order: key -> (principle, data type); the
\* question text is display text only
FIP_QUESTIONS ==
    << QEntry((* F1-D *) <<"F","1","-","D">>, (* F1 *) <<"F","1">>, DataStr),     QEntry((* F1-MD *) <<"F","1","-","M","D">>, (* F1 *) <<"F","1">>, MetadataStr),
       QEntry((* F2-D *) <<"F","2","-","D">>, (* F2 *) <<"F","2">>, DataStr),     QEntry((* F2-MD *) <<"F","2","-","M","D">>, (* F2 *) <<"F","2">>, MetadataStr),
       QEntry((* F3-D *) <<"F","3","-","D">>, (* F3 *) <<"F","3">>, DataStr),     QEntry((* F3-MD *) <<"F","3","-","M","D">>, (* F3 *) <<"F","3">>, MetadataStr),
       QEntry((* F4-D *) <<"F","4","-","D">>, (* F4 *) <<"F","4">>, DataStr),     QEntry((* F4-MD *) <<"F","4","-","M","D">>, (* F4 *) <<"F","4">>, MetadataStr),
       QEntry((* A1-D *) <<"A","1","-","D">>, (* A1 *) <<"A","1">>, DataStr),     QEntry((* A1-MD *) <<"A","1","-","M","D">>, (* A1 *) <<"A","1">>, MetadataStr),
       QEntry((* A1.1-D *) <<"A","1",".","1","-","D">>, (* A1.1 *) <<"A","1",".","1">>, DataStr), QEntry((* A1.1-MD *) <<"A","1",".","1","-","M","D">>, (* A1.1 *) <<"A","1",".","1">>, MetadataStr),
       QEntry((* A1.2-D *) <<"A","1",".","2","-","D">>, (* A1.2 *) <<"A","1",".","2">>, DataStr), QEntry((* A1.2-MD *) <<"A","1",".","2","-","M","D">>, (* A1.2 *) <<"A","1",".","2">>, MetadataStr),
       QEntry((* A2 *) <<"A","2">>, (* A2 *) <<"A","2">>, MetadataStr),
       QEntry((* I1-D *) <<"I","1","-","D">>, (* I1 *) <<"I","1">>, DataStr),     QEntry((* I1-MD *) <<"I","1","-","M","D">>, (* I1 *) <<"I","1">>, MetadataStr),
       QEntry((* I2-D *) <<"I","2","-","D">>, (* I2 *) <<"I","2">>, DataStr),     QEntry((* I2-MD *) <<"I","2","-","M","D">>, (* I2 *) <<"I","2">>, MetadataStr),
       QEntry((* I3-D *) <<"I","3","-","D">>, (* I3 *) <<"I","3">>, DataStr),     QEntry((* I3-MD *) <<"I","3","-","M","D">>, (* I3 *) <<"I","3">>, MetadataStr),
       QEntry((* R1-D *) <<"R","1","-","D">>, (* R1 *) <<"R","1">>, DataStr),     QEntry((* R1-MD *) <<"R","1","-","M","D">>, (* R1 *) <<"R","1">>, MetadataStr),
       QEntry((* R1.1-D *) <<"R","1",".","1","-","D">>, (* R1.1 *) <<"R","1",".","1">>, DataStr), QEntry((* R1.1-MD *) <<"R","1",".","1","-","M","D">>, (* R1.1 *) <<"R","1",".","1">>, MetadataStr),
       QEntry((* R1.2-D *) <<"R","1",".","2","-","D">>, (* R1.2 *) <<"R","1",".","2">>, DataStr), QEntry((* R1.2-MD *) <<"R","1",".","2","-","M","D">>, (* R1.2 *) <<"R","1",".","2">>, MetadataStr),
       QEntry((* R1.3-D *) <<"R","1",".","3","-","D">>, (* R1.3 *) <<"R","1",".","3">>, DataStr), QEntry((* R1.3-MD *) <<"R","1",".","3","-","M","D">>, (* R1.3 *) <<"R","1",".","3">>, MetadataStr) >>

\* ------------------------------------------------------------------ graphs
\* a quad of a ConjunctiveGraph: subject, predicate, object, graph context;
\* lit tells whether the object is an rdflib Literal
Quad(s, p, o, g, lit) == [s |-> s, p |-> p, o |-> o, g |-> g, lit |-> lit]

\* the value of a variable holding a ConjunctiveGraph or None
NoneGraph == [is_none |-> TRUE, quads |-> {}]
GraphOf(quads) == [is_none |-> FALSE, quads |-> quads]

\* truth value of a graph object: None is false, and so is a graph of
\* length zero (rdflib's Graph defines __len__ and no __bool__)
GraphTruthy(g) == ~g.is_none /\ Cardinality(g.quads) > 0

\* the concatenation of a sequence of sequences: that of its first half
\* followed by that of the rest
RECURSIVE ConcatAll(_)
ConcatAll(seqs) ==
    IF seqs = <<>> THEN <<>>
    ELSE IF Len(seqs) = 1 THEN seqs[1]
         ELSE LET half == Len(seqs) \div 2
              IN  ConcatAll(SubSeq(seqs, 1, half)) \o ConcatAll(SubSeq(seqs, half + 1, Len(seqs)))

\* for context in g.contexts(): for s, p, o in context -- the quads grouped
\* by context, in one of the orders the store may iterate them
Iterate(quads) ==
    LET ctxs == SetToSeq({q.g : q \in quads})
    IN  ConcatAll([k \in 1..Len(ctxs) |-> SetToSeq({q \in quads : q.g = ctxs[k]})])

\* every order in which the nested loops may visit the quads
Iterations(quads) ==
    {q \in Orders(quads) :
        \A a, b, c \in 1..Len(q) : (a < b /\ b < c /\ q[a].g = q[c].g) => q[b].g = q[a].g}

\* a print() call: what is printed and its argument
Line(ev, arg) == [ev |-> ev, arg |-> arg]

\* ---------------------------------------------------------- index resolver
NPX == (* http://purl.org/nanopub/x/ *) <<"h","t","t","p",":","/","/","p","u","r","l",".","o","r","g","/","n","a","n","o","p","u","b","/","x","/">>
FIP == (* https://w3id.org/fair/fip/terms/ *) <<"h","t","t","p","s",":","/","/","w","3","i","d",".","o","r","g","/","f","a","i","r","/","f","i","p","/","t","e","r","m","s","/">>

index_predicate_uris ==
    << NPX \o (* includesElement *) <<"i","n","c","l","u","d","e","s","E","l","e","m","e","n","t">>,
       NPX \o (* hasElement *) <<"h","a","s","E","l","e","m","e","n","t">>,
       NPX \o (* includes *) <<"i","n","c","l","u","d","e","s">>,
       FIP \o (* has-declaration *) <<"h","a","s","-","d","e","c","l","a","r","a","t","i","o","n">> >>

\* the debug dump of one context (lines 272-281)
DebugDump(quads) ==
    LET ctxs == SetToSeq({q.g : q \in quads})
        Shown(c) == Contains(Lower(c), (* assertion *) <<"a","s","s","e","r","t","i","o","n">>) \/ ~Contains(c, (* Head *) <<"H","e","a","d">>)
        Dump(c) ==
            IF Shown(c)
            THEN <<Line("debug_graph", c)>> \o
                 LET qs == SetToSeq({q \in quads : q.g = c})
                 IN  [k \in 1..Len(qs) |-> Line("debug_triple", qs[k].o)]
            ELSE <<>>
    IN  ConcatAll([k \in 1..Len(ctxs) |-> Dump(ctxs[k])])

\* a test that takes the predicate of every quad for an index predicate
IsAnyPredicate(p_str) == Len(p_str) >= 0

\* if p_str in index_predicate_uris  (line 290)
IsIndexPredicate(p_str) ==
    \E k \in 1..Len(index_predicate_uris) : p_str = index_predicate_uris[k]

\* the body of the loop of lines 285-293 for one quad: what it appends to
\* declarations and what debug prints
CollectOne(q, debug) ==
    IF IsIndexPredicate(q.p)
    THEN [declarations |-> <<q.o>>,
          printed |-> IF debug THEN <<Line("found", Prefix(q.o, 70))>> ELSE <<>>]
    ELSE [declarations |-> <<>>, printed |-> <<>>]

\* the loop of lines 284-293 over the quads in iteration order
CollectDeclarations(qs, debug) ==
    [declarations |-> ConcatAll([k \in 1..Len(qs) |-> CollectOne(qs[k], debug).declarations]),
     printed |-> ConcatAll([k \in 1..Len(qs) |-> CollectOne(qs[k], debug).printed])]

\* a return of the list as collected
ListSetKeepDuplicates(declarations) == declarations

\* return list(set(declarations))  (line 295): the elements once each, in
\* one order
ListSet(declarations) == SetToSeq(Range(declarations))

\* extract_declarations_from_index(index_graph, debug): the returned list and
\* the lines printed
extract_declarations_from_index(index_graph, debug) ==
    LET c == CollectDeclarations(Iterate(index_graph.quads), debug)
    IN  [result |-> ListSet(c.declarations),
         printed |-> (IF debug
                      THEN <<Line("debug_header", <<>>)>> \o DebugDump(index_graph.quads)
                      ELSE <<>>) \o c.printed]

\* ------------------------------------------------------ declaration parser
ReplaceChar(s, a, b) == [k \in 1..Len(s) |-> IF s[k] = a THEN b ELSE s[k]]

fip_predicates ==
    [refers_to_question |-> FIP \o (* refers-to-question *) <<"r","e","f","e","r","s","-","t","o","-","q","u","e","s","t","i","o","n">>,
     declares_current_use_of |-> FIP \o (* declares-current-use-of *) <<"d","e","c","l","a","r","e","s","-","c","u","r","r","e","n","t","-","u","s","e","-","o","f">>,
     declares_planned_use_of |-> FIP \o (* declares-planned-use-of *) <<"d","e","c","l","a","r","e","s","-","p","l","a","n","n","e","d","-","u","s","e","-","o","f">>,
     declares_planned_replacement_of |-> FIP \o (* declares-planned-replacement-of *) <<"d","e","c","l","a","r","e","s","-","p","l","a","n","n","e","d","-","r","e","p","l","a","c","e","m","e","n","t","-","o","f">>]

\* the record parse_declaration starts from (lines 300-306)
NewDeclaration ==
    [question |-> None, question_id |-> None, resource_label |-> None,
     resource_uri |-> None, resource_type |-> (* current *) <<"c","u","r","r","e","n","t">>]

\* lines 334-339: the question id read from the object of a question quad;
\* d is the declaration so far
QuestionId(d, o_str) ==
    IF Contains(o_str, (* FIP-Question- *) <<"F","I","P","-","Q","u","e","s","t","i","o","n","-">>)
    THEN SplitLast(o_str, (* FIP-Question- *) <<"F","I","P","-","Q","u","e","s","t","i","o","n","-">>)
    ELSE IF Contains(o_str, (* /F *) <<"/","F">>) \/ Contains(o_str, (* /A *) <<"/","A">>)
            \/ Contains(o_str, (* /I *) <<"/","I">>) \/ Contains(o_str, (* /R *) <<"/","R">>)
         THEN SplitLast(o_str, <<"/">>)
         ELSE d.question_id

\* the predicate tests of lines 331, 342, 347, 352
MatchesPredicate(p_str, name, uri) == Contains(Lower(p_str), name) \/ p_str = uri

\* the body of the loop of lines 321-354 for one quad: st holds the
\* declaration and the labels collected so far
ParseQuad(st, q) ==
    LET labels1 == IF Contains(Lower(q.p), (* label *) <<"l","a","b","e","l">>)
                   THEN (q.s :> q.o) @@ st.labels
                   ELSE st.labels
        d0 == st.declaration
        d1 == IF MatchesPredicate(q.p, (* refers-to-question *) <<"r","e","f","e","r","s","-","t","o","-","q","u","e","s","t","i","o","n">>, fip_predicates.refers_to_question)
              THEN [d0 EXCEPT !.question = q.o, !.question_id = QuestionId(d0, q.o)]
              ELSE d0
        d2 == IF MatchesPredicate(q.p, (* declares-current-use-of *) <<"d","e","c","l","a","r","e","s","-","c","u","r","r","e","n","t","-","u","s","e","-","o","f">>,
                                  fip_predicates.declares_current_use_of)
              THEN [d1 EXCEPT !.resource_uri = q.o, !.resource_type = (* current *) <<"c","u","r","r","e","n","t">>]
              ELSE d1
        d3 == IF MatchesPredicate(q.p, (* declares-planned-use-of *) <<"d","e","c","l","a","r","e","s","-","p","l","a","n","n","e","d","-","u","s","e","-","o","f">>,
                                  fip_predicates.declares_planned_use_of)
              THEN [d2 EXCEPT !.resource_uri = q.o, !.resource_type = (* planned *) <<"p","l","a","n","n","e","d">>]
              ELSE d2
        d4 == IF MatchesPredicate(q.p, (* declares-planned-replacement-of *) <<"d","e","c","l","a","r","e","s","-","p","l","a","n","n","e","d","-","r","e","p","l","a","c","e","m","e","n","t","-","o","f">>,
                                  fip_predicates.declares_planned_replacement_of)
              THEN [d3 EXCEPT !.resource_uri = q.o, !.resource_type = (* replacement *) <<"r","e","p","l","a","c","e","m","e","n","t">>]
              ELSE d3
    IN  [declaration |-> d4, labels |-> labels1]

RECURSIVE ParseQuads(_, _)
ParseQuads(st, qs) ==
    IF qs = <<>> THEN st ELSE ParseQuads(ParseQuad(st, Head(qs)), Tail(qs))

\* lines 357-368: the label of the declared resource
ResolveLabel(d, labels) ==
    IF ~Truthy(d.resource_uri) THEN d
    ELSE IF d.resource_uri \in DOMAIN labels
         THEN [d EXCEPT !.resource_label = labels[d.resource_uri]]
         ELSE LET uri == d.resource_uri
                  Spaced(s) == ReplaceChar(ReplaceChar(s, "-", " "), "_", " ")
              IN  IF Contains(uri, <<"#">>)
                  THEN [d EXCEPT !.resource_label = Spaced(SplitLast(uri, <<"#">>))]
                  ELSE IF Contains(uri, <<"/">>) /\ SplitLast(uri, <<"/">>) # <<>>
                       THEN [d EXCEPT !.resource_label = Spaced(SplitLast(uri, <<"/">>))]
                       ELSE d

\* parse_declaration(decl_graph, debug) with the quads visited in the order
\* qs: the declaration returned and the lines printed
parse_declaration(qs, debug) ==
    LET st == ParseQuads([declaration |-> NewDeclaration, labels |-> <<>>], qs)
        d == ResolveLabel(st.declaration, st.labels)
    IN  [result |-> d,
         printed |-> IF debug /\ Truthy(d.question_id)
                     THEN <<Line("parsed", d.question_id)>>
                     ELSE <<>>]

\* ------------------------------------------------------ principle organizer
\* d.get(key, default) on a dict, modelled as a record that may lack fields
Get(d, key, default) == IF key \in DOMAIN d THEN d[key] ELSE default

\* isinstance(x, dict): any other JSON value is the record NotADict
NotADict == [not_a_dict |-> TRUE]
IsDict(x) == "not_a_dict" \notin DOMAIN x

\* a or b  on optional strings
Or(a, b) == IF Truthy(a) THEN a ELSE b

\* lines 380-382 and 235-237: every key of the literal list, each with two
\* empty lists
EmptyTable ==
    [key \in Range(PRINCIPLE_KEYS) |-> [data |-> <<>>, metadata |-> <<>>]]

\* organized[principle][which].append(resource_info)
AppendTo(organized, principle, which, resource_info) ==
    IF which = "data"
    THEN [organized EXCEPT ![principle].data = Append(@, resource_info)]
    ELSE [organized EXCEPT ![principle].metadata = Append(@, resource_info)]

\* the same, creating the bucket when the key is new (what a defaultdict or
\* setdefault would do)
AppendCreating(organized, principle, which, resource_info) ==
    LET empty == [data |-> <<>>, metadata |-> <<>>]
        base == IF principle \in DOMAIN organized
                THEN organized
                ELSE (principle :> empty) @@ organized
    IN  AppendTo(base, principle, which, resource_info)

\* a split on the first "-"
SplitQuestionIdFirstDash(q_id) ==
    IF Contains(q_id, <<"-">>)
    THEN LET k == CHOOSE m \in Occurrences(q_id, <<"-">>) :
                      \A n \in Occurrences(q_id, <<"-">>) : m <= n
         IN  <<SubSeq(q_id, 1, k - 1), SubSeq(q_id, k + 1, Len(q_id))>>
    ELSE <<q_id, <<"D">>>>

\* lines 392-399: <<principle, dtype>> of a question id
SplitQuestionId(q_id) ==
    IF Contains(q_id, <<"-">>)
    THEN RSplit1(q_id, <<"-">>)
    ELSE <<q_id, <<"D">>>>

\* lines 409-412: the list an entry of this type suffix goes to
ListOfSuffix(dtype) == IF Upper(dtype) = (* MD *) <<"M","D">> THEN "metadata" ELSE "data"

\* the body of the loop without the test of line 402
OrganizeOneUnguarded(organized, decl) ==
    IF ~Truthy(Get(decl, "question_id", None)) THEN organized
    ELSE LET parts == SplitQuestionId(decl.question_id)
         IN  AppendCreating(organized, parts[1], ListOfSuffix(parts[2]),
                 [label |-> Or(Get(decl, "resource_label", None),
                               Get(decl, "resource_uri", (* Unknown *) <<"U","n","k","n","o","w","n">>)),
                  uri |-> Get(decl, "resource_uri", None),
                  type |-> Get(decl, "resource_type", (* current *) <<"c","u","r","r","e","n","t">>)])

\* the body of the loop of lines 384-412 for one declaration
OrganizeOne(organized, decl) ==
    IF ~Truthy(Get(decl, "question_id", None)) THEN organized
    ELSE LET parts == SplitQuestionId(decl.question_id)
             principle == parts[1]
             dtype == parts[2]
         IN  IF principle \in DOMAIN organized
             THEN AppendTo(organized, principle, ListOfSuffix(dtype),
                      [label |-> Or(Get(decl, "resource_label", None),
                                    Get(decl, "resource_uri", (* Unknown *) <<"U","n","k","n","o","w","n">>)),
                       uri |-> Get(decl, "resource_uri", None),
                       type |-> Get(decl, "resource_type", (* current *) <<"c","u","r","r","e","n","t">>)])
             ELSE organized

\* the loop of lines 384-412 from the table organized: over one
\* declaration its body, over more the loop over the first half and then,
\* from the table that leaves (organized itself when the first half
\* appended nothing), the loop over the rest
RECURSIVE OrganizeFrom(_, _)
OrganizeFrom(organized, declarations) ==
    IF declarations = <<>> THEN organized
    ELSE IF Len(declarations) = 1 THEN OrganizeOne(organized, declarations[1])
         ELSE LET half == Len(declarations) \div 2
                  first == OrganizeFrom(organized, SubSeq(declarations, 1, half))
                  rest == SubSeq(declarations, half + 1, Len(declarations))
              IN  IF first = organized
                  THEN OrganizeFrom(organized, rest)
                  ELSE OrganizeFrom(first, rest)

\* an organizer that passes over the first declaration
OrganizeAllButFirst(declarations) ==
    IF declarations = <<>> THEN EmptyTable ELSE OrganizeFrom(EmptyTable, Tail(declarations))

\* organize_by_principle(declarations)
organize_by_principle(declarations) == OrganizeFrom(EmptyTable, declarations)

\* the body of the loop with the data type compared as it is written in
\* the record
OrganizeOneJsonAsWritten(organized, decl) ==
    LET principle == Get(decl, "principle", None)
        dtype == Get(decl, "data_type", (* data *) <<"d","a","t","a">>)
    IN  IF Truthy(principle) /\ principle \in DOMAIN organized
        THEN AppendTo(organized, principle,
                 IF dtype = (* data *) <<"d","a","t","a">> THEN "data" ELSE "metadata",
                 [label |-> Get(decl, "resource_label", (* Unknown *) <<"U","n","k","n","o","w","n">>),
                  uri |-> Get(decl, "resource_uri", None),
                  type |-> Get(decl, "resource_type", (* current *) <<"c","u","r","r","e","n","t">>)])
        ELSE organized

\* the body of the loop of lines 239-253 for one JSON-sourced record
OrganizeOneJson(organized, decl) ==
    LET principle == Get(decl, "principle", None)
        dtype == Lower(Get(decl, "data_type", (* data *) <<"d","a","t","a">>))
    IN  IF Truthy(principle) /\ principle \in DOMAIN organized
        THEN AppendTo(organized, principle,
                 IF dtype = (* data *) <<"d","a","t","a">> THEN "data" ELSE "metadata",
                 [label |-> Get(decl, "resource_label", (* Unknown *) <<"U","n","k","n","o","w","n">>),
                  uri |-> Get(decl, "resource_uri", None),
                  type |-> Get(decl, "resource_type", (* current *) <<"c","u","r","r","e","n","t">>)])
        ELSE organized

\* the loop of lines 239-253, split like the loop of organize_by_principle
RECURSIVE OrganizeFromJson(_, _)
OrganizeFromJson(organized, declarations) ==
    IF declarations = <<>> THEN organized
    ELSE IF Len(declarations) = 1 THEN OrganizeOneJson(organized, declarations[1])
         ELSE LET half == Len(declarations) \div 2
                  first == OrganizeFromJson(organized, SubSeq(declarations, 1, half))
                  rest == SubSeq(declarations, half + 1, Len(declarations))
              IN  IF first = organized
                  THEN OrganizeFromJson(organized, rest)
                  ELSE OrganizeFromJson(first, rest)

\* organize_by_principle_from_json(declarations)
organize_by_principle_from_json(declarations) == OrganizeFromJson(EmptyTable, declarations)

\* ------------------------------------------------------------- JSON import
\* lines 201-205: the first entry of FIP_QUESTIONS whose key occurs in the
\* path, compared in lower case; 0 when there is none
PrincipleMatch(question_path) ==
    LET hits == {k \in 1..Len(FIP_QUESTIONS) :
                    Contains(Lower(question_path), Lower(FIP_QUESTIONS[k].key))}
    IN  IF hits = {} THEN 0 ELSE CHOOSE k \in hits : \A m \in hits : k <= m

\* lines 216-226: the record appended for one dict item of a reply
JsonDeclaration(question_path, match, item) ==
    [question_id |-> question_path,
     resource_label |-> Or(Or(Get(item, "label", None), Get(item, "name", None)),
                           Get(item, "id", (* Unknown *) <<"U","n","k","n","o","w","n">>)),
     resource_uri |-> Or(Or(Get(item, "uri", None), Get(item, "url", None)), <<>>),
     resource_type |-> (* current *) <<"c","u","r","r","e","n","t">>,
     principle |-> FIP_QUESTIONS[match].principle,
     data_type |-> FIP_QUESTIONS[match].dtype]

RECURSIVE ItemDeclarations(_, _, _)
ItemDeclarations(question_path, match, items) ==
    IF items = <<>> THEN <<>>
    ELSE (IF IsDict(Head(items))
          THEN <<JsonDeclaration(question_path, match, Head(items))>>
          ELSE <<>>) \o ItemDeclarations(question_path, match, Tail(items))

\* the body of the loop of lines 197-226 for one reply
ReplyDeclarations(reply) ==
    LET question_path == Get(reply, "path", <<>>)
        match == PrincipleMatch(question_path)
        answer == Get(reply, "answer", <<>>)
    IN  IF match = 0 THEN <<>>
        ELSE IF IsDict(answer)
             THEN ItemDeclarations(question_path, match, Get(answer, "items", <<>>))
             ELSE <<>>

\* read_fip_from_json on the parsed document data: <<fip_info, declarations>>
read_fip_from_json(data) ==
    LET replies == Get(data, "replies", <<>>)
    IN  [fip_info |->
             [label |-> Get(data, "name", (* Unknown FIP *) <<"U","n","k","n","o","w","n"," ","F","I","P">>),
              description |-> Get(data, "description", <<>>),
              version |-> Get(data, "version", (* 1.0.0 *) <<"1",".","0",".","0">>),
              creators |-> Get(data, "creators", <<>>),
              declared_by |-> Get(data, "community", <<>>),
              created |-> Get(data, "created", <<>>),
              declaration_index |-> <<>>,
              wizard_source |-> Get(data, "uuid", <<>>)],
         declarations |-> ConcatAll([k \in 1..Len(replies) |-> ReplyDeclarations(replies[k])])]

\* ---------------------------------------------------------- report renderer
\* ', '.join(strings)
RECURSIVE Join(_)
Join(strings) ==
    IF strings = <<>> THEN <<>>
    ELSE IF Len(strings) = 1 THEN strings[1]
         ELSE strings[1] \o (* , *) <<","," ">> \o Join(Tail(strings))

\* lines 450-454 and 458-462: the lines of one resource list
ResourceLines(resources) ==
    ConcatAll([k \in 1..Len(resources) |->
        <<Line("resource",
               resources[k].label \o
               (IF resources[k].type = (* planned *) <<"p","l","a","n","n","e","d">> THEN (* (planned) *) <<" ","(","p","l","a","n","n","e","d",")">> ELSE <<>>))>> \o
        (IF Truthy(resources[k].uri) THEN <<Line("uri", resources[k].uri)>> ELSE <<>>)])

\* lines 439-462: the section of one principle
SectionAlways(organized, principle_key) ==
    LET resources == IF principle_key \in DOMAIN organized
                     THEN organized[principle_key]
                     ELSE [data |-> <<>>, metadata |-> <<>>]
    IN  <<Line("section", principle_key)>> \o
        (IF resources.data # <<>>
         THEN <<Line("for_data", <<>>)>> \o ResourceLines(resources.data) ELSE <<>>) \o
        (IF resources.metadata # <<>>
         THEN <<Line("for_metadata", <<>>)>> \o ResourceLines(resources.metadata) ELSE <<>>)

Section(organized, principle_key) ==
    LET resources == IF principle_key \in DOMAIN organized
                     THEN organized[principle_key]
                     ELSE [data |-> <<>>, metadata |-> <<>>]
    IN  IF resources.data # <<>> \/ resources.metadata # <<>>
        THEN SectionAlways(organized, principle_key)
        ELSE <<>>

\* print_fip_report(fip_info, organized): the lines printed
print_fip_report(fip_info, organized) ==
    <<Line("title", fip_info.label)>> \o
    (IF Truthy(fip_info.description) THEN <<Line("description", fip_info.description)>> ELSE <<>>) \o
    (IF Truthy(fip_info.version) THEN <<Line("version", fip_info.version)>> ELSE <<>>) \o
    (IF fip_info.creators # <<>> THEN <<Line("creators", Join(fip_info.creators))>> ELSE <<>>) \o
    (IF Truthy(fip_info.declared_by) THEN <<Line("declared_by", fip_info.declared_by)>> ELSE <<>>) \o
    <<Line("resources_by_principle", <<>>)>> \o
    ConcatAll([k \in 1..Len(FAIR_PRINCIPLES) |-> Section(organized, FAIR_PRINCIPLES[k])]) \o
    <<Line("end_of_report", <<>>)>>

\* --------------------------------------------------------- header extractor
\* lines 100-109
NewFipInfo ==
    [label |-> None, description |-> None, version |-> None, declared_by |-> None,
     declaration_index |-> None, creators |-> <<>>, created |-> None,
     wizard_source |-> None]

\* the body of the loop of lines 113-147 for one quad
HeaderQuad(info, q) ==
    LET p == Lower(q.p)
        i1 == IF Contains(p, (* label *) <<"l","a","b","e","l">>) THEN [info EXCEPT !.label = q.o] ELSE info
        i2 == IF Contains(p, (* description *) <<"d","e","s","c","r","i","p","t","i","o","n">>) THEN [i1 EXCEPT !.description = q.o] ELSE i1
        i3 == IF Contains(p, (* version *) <<"v","e","r","s","i","o","n">>) THEN [i2 EXCEPT !.version = q.o] ELSE i2
        i4 == IF Contains(p, (* declared-by *) <<"d","e","c","l","a","r","e","d","-","b","y">>) THEN [i3 EXCEPT !.declared_by = q.o] ELSE i3
        i5 == IF Contains(p, (* declaration-index *) <<"d","e","c","l","a","r","a","t","i","o","n","-","i","n","d","e","x">>)
              THEN [i4 EXCEPT !.declaration_index = q.o] ELSE i4
        i6 == IF Contains(p, (* creator *) <<"c","r","e","a","t","o","r">>) /\ Contains(q.o, (* orcid.org *) <<"o","r","c","i","d",".","o","r","g">>)
              THEN [i5 EXCEPT !.creators = Append(@, q.o)] ELSE i5
        i7 == IF Contains(p, (* created *) <<"c","r","e","a","t","e","d">>) /\ q.lit THEN [i6 EXCEPT !.created = q.o] ELSE i6
        i8 == IF Contains(q.p, (* wasDerivedFrom *) <<"w","a","s","D","e","r","i","v","e","d","F","r","o","m">>) /\ Contains(q.o, (* fip/wizard *) <<"f","i","p","/","w","i","z","a","r","d">>)
              THEN [i7 EXCEPT !.wizard_source = q.o] ELSE i7
    IN  i8

RECURSIVE HeaderQuads(_, _)
HeaderQuads(info, qs) ==
    IF qs = <<>> THEN info ELSE HeaderQuads(HeaderQuad(info, Head(qs)), Tail(qs))

\* parse_fip_header on the parsed file, its quads visited in the order qs
parse_fip_header(qs) == HeaderQuads(NewFipInfo, qs)

\* what one requests.get does: raise (timeout, connection error), or
\* answer with a status code and a body
Raised == [raised |-> TRUE, status_code |-> 0, text |-> <<>>]
Response(status_code, text) == [raised |-> FALSE, status_code |-> status_code, text |-> text]

\* ------------------------------------------------------- the world of a run
\* two decimal digits
DIGITS == (* 0123456789 *) <<"0","1","2","3","4","5","6","7","8","9">>
Digits(n) == <<DIGITS[((n \div 10) % 10) + 1], DIGITS[(n % 10) + 1]>>

Assertion == (* http://n.p/RAx#assertion *) <<"h","t","t","p",":","/","/","n",".","p","/","R","A","x","#","a","s","s","e","r","t","i","o","n">>
HeadCtx == (* http://n.p/RAx#Head *) <<"h","t","t","p",":","/","/","n",".","p","/","R","A","x","#","H","e","a","d">>
PubInfo == (* http://n.p/RAx#pubinfo *) <<"h","t","t","p",":","/","/","n",".","p","/","R","A","x","#","p","u","b","i","n","f","o">>
Subject == (* http://n.p/RAx *) <<"h","t","t","p",":","/","/","n",".","p","/","R","A","x">>
RdfsLabel == (* http://www.w3.org/2000/01/rdf-schema#label *) <<"h","t","t","p",":","/","/","w","w","w",".","w","3",".","o","r","g","/","2","0","0","0","/","0","1","/","r","d","f","-","s","c","h","e","m","a","#","l","a","b","e","l">>

IndexUri == (* http://n.p/RAi *) <<"h","t","t","p",":","/","/","n",".","p","/","R","A","i">>
DeclUri(n) == (* http://n.p/RA *) <<"h","t","t","p",":","/","/","n",".","p","/","R","A">> \o Digits(n)

\* an index graph that lists the declarations of S
IndexQuads(S) ==
    {Quad(IndexUri, NPX \o (* includesElement *) <<"i","n","c","l","u","d","e","s","E","l","e","m","e","n","t">>, DeclUri(n), Assertion, FALSE) : n \in S}

UnrelatedQuad ==
    Quad(IndexUri, (* http://www.w3.org/1999/02/22-rdf-syntax-ns#type *) <<"h","t","t","p",":","/","/","w","w","w",".","w","3",".","o","r","g","/","1","9","9","9","/","0","2","/","2","2","-","r","d","f","-","s","y","n","t","a","x","-","n","s","#","t","y","p","e">>,
         NPX \o (* NanopubIndex *) <<"N","a","n","o","p","u","b","I","n","d","e","x">>, PubInfo, FALSE)

QuestionQuad(id) ==
    Quad(Subject, fip_predicates.refers_to_question, FIP \o QPrefix \o id, Assertion, FALSE)

\* declaration graphs
DeclF1D ==
    {QuestionQuad((* F1-D *) <<"F","1","-","D">>),
     Quad(Subject, fip_predicates.declares_current_use_of, (* https://e.x/ARK *) <<"h","t","t","p","s",":","/","/","e",".","x","/","A","R","K">>, Assertion, FALSE),
     Quad((* https://e.x/ARK *) <<"h","t","t","p","s",":","/","/","e",".","x","/","A","R","K">>, RdfsLabel, (* Archival Key *) <<"A","r","c","h","i","v","a","l"," ","K","e","y">>, Assertion, TRUE)}

DeclA11MD ==
    {QuestionQuad((* A1.1-MD *) <<"A","1",".","1","-","M","D">>),
     Quad(Subject, fip_predicates.declares_planned_use_of, (* https://e.x/v#Open_ID *) <<"h","t","t","p","s",":","/","/","e",".","x","/","v","#","O","p","e","n","_","I","D">>,
          Assertion, FALSE)}

DeclF5D ==
    {QuestionQuad((* F5-D *) <<"F","5","-","D">>),
     Quad(Subject, fip_predicates.declares_current_use_of, (* https://e.x/DOI *) <<"h","t","t","p","s",":","/","/","e",".","x","/","D","O","I">>, Assertion, FALSE)}

DeclNoQuestion ==
    {Quad(Subject, fip_predicates.declares_current_use_of, (* https://e.x/DOI *) <<"h","t","t","p","s",":","/","/","e",".","x","/","D","O","I">>, Assertion, FALSE)}

\* header graphs
HeaderWithIndex ==
    {Quad(Subject, RdfsLabel, (* My FIP *) <<"M","y"," ","F","I","P">>, Assertion, TRUE),
     Quad(Subject, FIP \o (* has-declaration-index *) <<"h","a","s","-","d","e","c","l","a","r","a","t","i","o","n","-","i","n","d","e","x">>, IndexUri, Assertion, FALSE),
     Quad(Subject, (* http://www.w3.org/ns/prov#wasDerivedFrom *) <<"h","t","t","p",":","/","/","w","w","w",".","w","3",".","o","r","g","/","n","s","/","p","r","o","v","#","w","a","s","D","e","r","i","v","e","d","F","r","o","m">>,
          (* https://fip.fair-wizard.com/fip/wizard/p1 *) <<"h","t","t","p","s",":","/","/","f","i","p",".","f","a","i","r","-","w","i","z","a","r","d",".","c","o","m","/","f","i","p","/","w","i","z","a","r","d","/","p","1">>, (* http://n.p/RAx#provenance *) <<"h","t","t","p",":","/","/","n",".","p","/","R","A","x","#","p","r","o","v","e","n","a","n","c","e">>, FALSE)}

HeaderWithoutIndex == {Quad(Subject, RdfsLabel, (* My FIP *) <<"M","y"," ","F","I","P">>, Assertion, TRUE)}

\* a text in TriG, of a file or of a response, is written down by what it
\* serialises: nothing well formed, an index graph (the declarations it
\* lists, and whether it has a quad that lists none), or a named graph
Malformed == [kind |-> "malformed"]
IndexText(S, extra) == [kind |-> "index", lists |-> S, extra |-> extra]
NamedText(name) == [kind |-> "named", name |-> name]

\* g.parse(..., format="trig") raises on a text that is not well formed
ParseRaises(text) == text.kind = "malformed"

\* and yields the quads of the text otherwise
ParseTrig(text) ==
    IF text.kind = "index"
    THEN IndexQuads(text.lists) \cup (IF text.extra THEN {UnrelatedQuad} ELSE {})
    ELSE CASE text.name = "DeclF1D" -> DeclF1D
           [] text.name = "DeclA11MD" -> DeclA11MD
           [] text.name = "DeclF5D" -> DeclF5D
           [] text.name = "DeclNoQuestion" -> DeclNoQuestion
           [] text.name = "HeaderWithIndex" -> HeaderWithIndex
           [] text.name = "HeaderWithoutIndex" -> HeaderWithoutIndex
           [] OTHER -> {}

\* the index texts the servers of a run may serve
RunIndexTexts ==
    {IndexText(S, FALSE) : S \in SUBSET (1..MaxRunUris)} \cup {IndexText({}, TRUE)}

\* the declaration texts the servers of a run may serve
RunDeclTexts ==
    {NamedText(name) : name \in {"DeclF1D", "DeclF5D", "DeclNoQuestion", "Empty"}}

\* every answer a server may give to a GET for one of Texts
Responses(Texts) ==
    {Raised, Response(404, NamedText("Empty")), Response(200, Malformed)}
    \cup {Response(200, text) : text \in Texts}

\* JSON documents
JsonArk ==
    [name |-> (* Test FIP *) <<"T","e","s","t"," ","F","I","P">>,
     replies |-> << [path |-> (* FIP-Question-F1-D *) <<"F","I","P","-","Q","u","e","s","t","i","o","n","-","F","1","-","D">>,
                     answer |-> [items |-> << [label |-> (* ARK *) <<"A","R","K">>,
                                               uri |-> (* https://ark.example *) <<"h","t","t","p","s",":","/","/","a","r","k",".","e","x","a","m","p","l","e">>] >>]] >>]

\* the text of a JSON document, written down by the document
JsonText(doc) == [kind |-> "json", doc |-> doc]

\* json.load raises on a text that is no JSON
JsonLoadRaises(text) == text.kind = "malformed"

\* and yields the document otherwise; a document that is no object (a
\* list, a number) is NotADict
JsonLoad(text) ==
    IF text.kind = "json" THEN text.doc
    ELSE CASE text.name = "JsonArk" -> JsonArk
           [] OTHER -> NotADict

\* a file on disk: whether it exists, whether its name ends in .json, and
\* its text
File(exists, is_json, text) == [exists |-> exists, is_json |-> is_json, text |-> text]

RunFiles ==
    {File(FALSE, FALSE, Malformed),
     File(FALSE, TRUE, Malformed),
     File(TRUE, FALSE, Malformed),
     File(TRUE, FALSE, NamedText("HeaderWithIndex")),
     File(TRUE, FALSE, NamedText("HeaderWithoutIndex")),
     File(TRUE, TRUE, Malformed),
     File(TRUE, TRUE, NamedText("JsonList")),
     File(TRUE, TRUE, NamedText("JsonArk"))}

\* sys.argv: whether a path is given, and which of the flags
Argvs == [has_path : BOOLEAN, fetch : BOOLEAN, debug : BOOLEAN, local : BOOLEAN]

\* ------------------------------------------------------------------ fetcher
NumCandidates == 4      \* the entries of the list endpoints (lines 156-161)
DeclLimit == 50         \* decl_uris[:50] (line 499)

\* the candidate URLs with the mirrors before the URI itself
EndpointsMirrorsFirst(uri) ==
    LET np_id == SplitLast(uri, <<"/">>)
        format_type == (* trig *) <<"t","r","i","g">>
    IN  << (* https://np.petapico.org/ *) <<"h","t","t","p","s",":","/","/","n","p",".","p","e","t","a","p","i","c","o",".","o","r","g","/">> \o np_id \o <<".">> \o format_type,
           (* https://server.np.trustyuri.net/ *) <<"h","t","t","p","s",":","/","/","s","e","r","v","e","r",".","n","p",".","t","r","u","s","t","y","u","r","i",".","n","e","t","/">> \o np_id \o <<".">> \o format_type,
           (* https://w3id.org/np/ *) <<"h","t","t","p","s",":","/","/","w","3","i","d",".","o","r","g","/","n","p","/">> \o np_id \o <<".">> \o format_type,
           uri \o <<".">> \o format_type >>

\* the four candidate URLs of fetch_nanopub(uri, "trig") (lines 155-161)
Endpoints(uri) ==
    LET np_id == SplitLast(uri, <<"/">>)
        format_type == (* trig *) <<"t","r","i","g">>
    IN  << uri \o <<".">> \o format_type,
           (* https://np.petapico.org/ *) <<"h","t","t","p","s",":","/","/","n","p",".","p","e","t","a","p","i","c","o",".","o","r","g","/">> \o np_id \o <<".">> \o format_type,
           (* https://server.np.trustyuri.net/ *) <<"h","t","t","p","s",":","/","/","s","e","r","v","e","r",".","n","p",".","t","r","u","s","t","y","u","r","i",".","n","e","t","/">> \o np_id \o <<".">> \o format_type,
           (* https://w3id.org/np/ *) <<"h","t","t","p","s",":","/","/","w","3","i","d",".","o","r","g","/","n","p","/">> \o np_id \o <<".">> \o format_type >>

\* lines 168-171 of one round of the loop: the candidate ends the fetch
\* with a graph
ReturnsGraph(resp) == ~resp.raised /\ resp.status_code = 200 /\ ~ParseRaises(resp.text)

\* a loop that gives up one candidate early
LastCandidateEarly(k) == k = NumCandidates - 1

\* the loop of fetch_nanopub goes on to the next candidate, if any
LastCandidate(k) == k = NumCandidates

\* ------------------------------------------------------------------- state
VARIABLES
    pc,             \* where the script is
    argv,           \* the command line
    file,           \* the file the path names
    web,            \* the answers the servers may give: [index, decl]
    fip_info,       \* the header record
    fetch,          \* the frame of the call of fetch_nanopub: uri, candidate, attempts
    graph,          \* what the last call of fetch_nanopub returned
    decl_uris,      \* the list the index resolver returned
    i,              \* the loop index of line 499, from 1
    declarations,   \* the list declarations of read_fip_from_file
    organized,      \* the table that is rendered
    output,         \* the lines printed so far
    exit_code,      \* the exit status of the process, -1 while it runs
    traceback,      \* the process died of an uncaught exception
    gets,           \* the HTTP GETs issued so far
    fetched,        \* the URIs fetch_nanopub was called with, in order
    arg,            \* the input of the function under test
    ret             \* its result

vars == <<pc, argv, file, web, fip_info, fetch, graph, decl_uris, i, declarations,
          organized, output, exit_code, traceback, gets, fetched, arg, ret>>

funvars == <<arg, ret>>
runvars == <<pc, argv, file, web, fip_info, fetch, graph, decl_uris, i, declarations,
             organized, output, exit_code, traceback, gets, fetched>>

NoFetch == [uri |-> <<>>, k |-> 0, attempts |-> <<>>]

\* the state of the script before its first statement
RunInit ==
    /\ pc = "start"
    /\ fip_info = NewFipInfo
    /\ fetch = NoFetch
    /\ graph = NoneGraph
    /\ decl_uris = <<>>
    /\ i = 0
    /\ declarations = <<>>
    /\ organized = <<>>
    /\ output = <<>>
    /\ exit_code = -1
    /\ traceback = FALSE
    /\ gets = 0
    /\ fetched = <<>>

NoFunction ==
    /\ arg = <<>>
    /\ ret = <<>>

Init ==
    /\ RunInit
    /\ NoFunction
    /\ argv \in Argvs
    /\ file \in RunFiles
    /\ web = [index |-> Responses(RunIndexTexts), decl |-> Responses(RunDeclTexts)]

\* sys.exit(code), or the end of the script (code 0)
Exit(code, lines) ==
    /\ pc' = "exited"
    /\ exit_code' = code
    /\ output' = output \o lines

\* an exception nothing catches: the interpreter prints the traceback and
\* exits with status 1
Uncaught ==
    /\ pc' = "exited"
    /\ exit_code' = 1
    /\ traceback' = TRUE

\* lines 522-526, and the end of the script: the declarations decls are
\* organized and the report is printed after lines
Finish(info, decls, lines) ==
    LET table == organize_by_principle(decls)
    IN  /\ organized' = table
        /\ Exit(0, lines \o print_fip_report(info, table))

\* lines 559-582: no path on the command line
Usage ==
    /\ pc = "start"
    /\ ~argv.has_path
    /\ Exit(1, <<Line("usage", <<>>)>>)
    /\ UNCHANGED <<argv, file, web, fip_info, fetch, graph, decl_uris, i, declarations,
                   organized, traceback, gets, fetched, funvars>>

\* lines 588-590: the path names no file
FileNotFound ==
    /\ pc = "start"
    /\ argv.has_path
    /\ ~file.exists
    /\ Exit(1, <<Line("error_file_not_found", <<>>)>>)
    /\ UNCHANGED <<argv, file, web, fip_info, fetch, graph, decl_uris, i, declarations,
                   organized, traceback, gets, fetched, funvars>>

\* lines 178-181 and the try of lines 596-602: json.load raises on a text
\* that is no JSON, and data.get raises when the document is no object
JsonRaises(f) == JsonLoadRaises(f.text) \/ ~IsDict(JsonLoad(f.text))

\* lines 593-602: a .json file
RunJson ==
    /\ pc = "start"
    /\ argv.has_path
    /\ file.exists
    /\ file.is_json
    /\ IF JsonRaises(file)
       THEN /\ Exit(1, <<Line("reading_json", <<>>), Line("error_reading_json", <<>>)>>)
            /\ UNCHANGED <<fip_info, declarations, organized>>
       ELSE LET r == read_fip_from_json(JsonLoad(file.text))
                table == organize_by_principle_from_json(r.declarations)
            IN  /\ fip_info' = r.fip_info
                /\ declarations' = r.declarations
                /\ organized' = table
                /\ Exit(0, <<Line("reading_json", <<>>)>> \o print_fip_report(r.fip_info, table))
    /\ UNCHANGED <<argv, file, web, fetch, graph, decl_uris, i, traceback, gets, fetched,
                   funvars>>

\* lines 529-555: read_fip_local_only, then the end of the script
RunLocal ==
    /\ pc = "start"
    /\ argv.has_path
    /\ file.exists
    /\ ~file.is_json
    /\ ~argv.fetch
    /\ IF ParseRaises(file.text)
       THEN /\ Uncaught
            /\ output' = output \o <<Line("reading_header", <<>>)>>
            /\ UNCHANGED fip_info
       ELSE \E qs \in Iterations(ParseTrig(file.text)) :
                LET info == parse_fip_header(qs)
                IN  /\ fip_info' = info
                    /\ Exit(0, <<Line("reading_header", <<>>),
                                 Line("title", info.label),
                                 Line("description", info.description),
                                 Line("version", info.version),
                                 Line("creators", Join(info.creators)),
                                 Line("declared_by", info.declared_by),
                                 Line("created", info.created),
                                 Line("declaration_index", info.declaration_index),
                                 Line("wizard_source", info.wizard_source),
                                 Line("hint_fetch", <<>>)>>)
                    /\ UNCHANGED traceback
    /\ UNCHANGED <<argv, file, web, fetch, graph, decl_uris, i, declarations, organized,
                   gets, fetched, funvars>>

\* a call of fetch_nanopub(uri) begins (lines 155-163)
CallFetch(uri) ==
    /\ fetch' = [uri |-> uri, k |-> 1, attempts |-> <<>>]
    /\ fetched' = Append(fetched, uri)

\* lines 470-485: read_fip_from_file up to the fetch of the index
StartFetchRun ==
    /\ pc = "start"
    /\ argv.has_path
    /\ file.exists
    /\ ~file.is_json
    /\ argv.fetch
    /\ IF ParseRaises(file.text)
       THEN /\ Uncaught
            /\ output' = output \o <<Line("reading", <<>>)>>
            /\ UNCHANGED <<fip_info, fetch, fetched, organized>>
       ELSE \E qs \in Iterations(ParseTrig(file.text)) :
                LET info == parse_fip_header(qs)
                    lines == <<Line("reading", <<>>), Line("found_fip", info.label),
                               Line("declaration_index", info.declaration_index)>>
                IN  /\ fip_info' = info
                    /\ UNCHANGED traceback
                    /\ IF Truthy(info.declaration_index)
                       THEN /\ pc' = "fetch_index"
                            /\ output' = output \o lines \o <<Line("fetching", <<>>)>>
                            /\ CallFetch(info.declaration_index)
                            /\ UNCHANGED <<organized, exit_code>>
                       ELSE /\ Finish(info, declarations, lines)
                            /\ UNCHANGED <<fetch, fetched>>
    /\ UNCHANGED <<argv, file, web, graph, decl_uris, i, declarations, gets, funvars>>

\* one round of the loop of fetch_nanopub (lines 165-175): a GET of the
\* candidate fetch.k, answered by resp
Round(resp, returned) ==
    /\ gets' = gets + 1
    /\ LET attempt == [url |-> Endpoints(fetch.uri)[fetch.k], resp |-> resp]
       IN  IF ReturnsGraph(resp)
           THEN /\ fetch' = [fetch EXCEPT !.attempts = Append(@, attempt)]
                /\ graph' = GraphOf(ParseTrig(resp.text))
                /\ pc' = returned
           ELSE IF LastCandidate(fetch.k)
                THEN /\ fetch' = [fetch EXCEPT !.attempts = Append(@, attempt)]
                     /\ graph' = NoneGraph
                     /\ pc' = returned
                ELSE /\ fetch' = [fetch EXCEPT !.attempts = Append(@, attempt), !.k = @ + 1]
                     /\ UNCHANGED <<graph, pc>>

\* a GET of the fetch of the declaration index (line 485)
GetIndex ==
    /\ pc = "fetch_index"
    /\ \E resp \in web.index : Round(resp, "index_returned")
    /\ UNCHANGED <<argv, file, web, fip_info, decl_uris, i, declarations, organized, output,
                   exit_code, traceback, fetched, funvars>>

\* a GET of the fetch of a declaration (line 500)
GetDecl ==
    /\ pc = "fetch_decl"
    /\ \E resp \in web.decl : Round(resp, "decl_returned")
    /\ UNCHANGED <<argv, file, web, fip_info, decl_uris, i, declarations, organized, output,
                   exit_code, traceback, fetched, funvars>>

\* a slice that lets one more URI through
LimitedToOneMore(uris) == Prefix(uris, DeclLimit + 1)

\* decl_uris[:50]
Limited(uris) == Prefix(uris, DeclLimit)

\* lines 510-520: the index could not be fetched
IndexWarning ==
    <<Line("warning_could_not_fetch_index", <<>>), Line("alternatives", <<>>)>> \o
    (IF Truthy(fip_info.wizard_source)
     THEN <<Line("wizard_url", SplitLast(fip_info.wizard_source, <<"/">>))>>
     ELSE <<>>)

\* lines 487-499 and 510-520: the fetch of the index has returned
IndexReturned ==
    /\ pc = "index_returned"
    /\ IF GraphTruthy(graph)
       THEN LET r == extract_declarations_from_index(graph, argv.debug)
                uris == r.result
                lines == <<Line("fetched_index", <<>>)>> \o r.printed \o
                         <<Line("found_references", Digits(Len(uris)))>> \o
                         (IF Len(uris) = 0 /\ ~argv.debug
                          THEN <<Line("warning_no_declarations", <<>>)>>
                          ELSE <<>>)
            IN  /\ decl_uris' = uris
                /\ IF Limited(uris) = <<>>
                   THEN /\ Finish(fip_info, declarations, lines \o <<Line("newline", <<>>)>>)
                        /\ fetch' = NoFetch
                        /\ UNCHANGED <<i, fetched>>
                   ELSE /\ pc' = "fetch_decl"
                        /\ output' = output \o lines
                        /\ i' = 1
                        /\ CallFetch(uris[1])
                        /\ UNCHANGED <<organized, exit_code>>
       ELSE /\ Finish(fip_info, declarations, IndexWarning)
            /\ fetch' = NoFetch
            /\ UNCHANGED <<decl_uris, i, fetched>>
    /\ UNCHANGED <<argv, file, web, fip_info, graph, declarations, traceback, gets, funvars>>

\* lines 501-509: the fetch of declaration i has returned; after the last
\* one the loop ends
DeclReturned ==
    /\ pc = "decl_returned"
    /\ LET r == parse_declaration(Iterate(graph.quads), argv.debug)
           decl == r.result
           progress == <<Line("progress", Digits(i))>>
           kept == GraphTruthy(graph) /\ Truthy(decl.question_id)
           lines == IF GraphTruthy(graph)
                    THEN IF Truthy(decl.question_id)
                         THEN r.printed \o progress
                         ELSE r.printed \o
                              (IF argv.debug
                               THEN <<Line("debug_no_question_id", decl_uris[i])>>
                               ELSE <<>>) \o progress
                    ELSE progress
           decls == IF kept THEN Append(declarations, decl) ELSE declarations
       IN  /\ declarations' = decls
           /\ IF i < Len(Limited(decl_uris))
              THEN /\ pc' = "fetch_decl"
                   /\ output' = output \o lines
                   /\ i' = i + 1
                   /\ CallFetch(decl_uris[i + 1])
                   /\ UNCHANGED <<organized, exit_code>>
              ELSE /\ Finish(fip_info, decls, lines \o <<Line("newline", <<>>)>>)
                   /\ fetch' = NoFetch
                   /\ UNCHANGED <<i, fetched>>
    /\ UNCHANGED <<argv, file, web, fip_info, graph, decl_uris, traceback, gets, funvars>>

Next ==
    \/ Usage
    \/ FileNotFound
    \/ RunJson
    \/ RunLocal
    \/ StartFetchRun
    \/ GetIndex
    \/ GetDecl
    \/ IndexReturned
    \/ DeclReturned

Spec == Init /\ [][Next]_vars



\* ------------------------------------------- fetch runs with many declarations
\* servers that give one answer to every GET for a declaration, and serve an
\* index that lists n declarations or answer 404
CapWebs ==
    {[index |-> {Response(404, NamedText("Empty")), Response(200, IndexText(1..n, FALSE))},
      decl |-> {answer}] :
        n \in 0..CapN,
        answer \in {Response(404, NamedText("Empty")), Response(200, Malformed),
                    Response(200, NamedText("DeclF1D"))}}

InitCap ==
    /\ RunInit
    /\ NoFunction
    /\ argv = [has_path |-> TRUE, fetch |-> TRUE, debug |-> FALSE, local |-> FALSE]
    /\ file = File(TRUE, FALSE, NamedText("HeaderWithIndex"))
    /\ web \in CapWebs

NextCap ==
    \/ StartFetchRun
    \/ GetIndex
    \/ GetDecl
    \/ IndexReturned
    \/ DeclReturned

SpecCap == InitCap /\ [][NextCap]_vars

\* ------------------------------------------------- the functions on their own
\* a function under test is called on arg and leaves its result in ret; the
\* script itself does not run
Idle ==
    /\ fip_info = NewFipInfo
    /\ fetch = NoFetch
    /\ graph = NoneGraph
    /\ decl_uris = <<>>
    /\ i = 0
    /\ declarations = <<>>
    /\ organized = <<>>
    /\ output = <<>>
    /\ exit_code = -1
    /\ traceback = FALSE
    /\ gets = 0
    /\ fetched = <<>>
    /\ argv = [has_path |-> FALSE, fetch |-> FALSE, debug |-> FALSE, local |-> FALSE]
    /\ file = File(FALSE, FALSE, Malformed)
    /\ web = [index |-> {}, decl |-> {}]

Return(value) ==
    /\ pc' = "returned"
    /\ ret' = value
    /\ UNCHANGED <<arg, argv, file, web, fip_info, fetch, graph, decl_uris, i, declarations,
                   organized, output, exit_code, traceback, gets, fetched>>

\* index graphs for the resolver: known predicates, one that only contains
\* a known one, and an unrelated one; two objects; two contexts
ResolverPredicates ==
    Range(index_predicate_uris)
    \cup {NPX \o (* includesElements *) <<"i","n","c","l","u","d","e","s","E","l","e","m","e","n","t","s">>, (* http://www.w3.org/1999/02/22-rdf-syntax-ns#type *) <<"h","t","t","p",":","/","/","w","w","w",".","w","3",".","o","r","g","/","1","9","9","9","/","0","2","/","2","2","-","r","d","f","-","s","y","n","t","a","x","-","n","s","#","t","y","p","e">>}

ResolverQuads ==
    {Quad(IndexUri, p, DeclUri(n), g, FALSE) :
        p \in ResolverPredicates, n \in 1..2, g \in {Assertion, HeadCtx}}

InitResolver ==
    /\ Idle
    /\ pc = "call_resolver"
    /\ ret = <<>>
    /\ arg \in [quads : SubsetsUpTo(ResolverQuads, MaxIndexQuads), debug : BOOLEAN]

CallResolver ==
    /\ pc = "call_resolver"
    /\ Return(extract_declarations_from_index(GraphOf(arg.quads), arg.debug))

SpecResolver == InitResolver /\ [][CallResolver]_vars

\* organizer inputs: question ids with a known and an unknown principle,
\* with the suffixes D, MD, md and M, without a suffix, with two dashes,
\* empty and None; with and without a label
NpQuestionIds ==
    {None, <<>>, (* A1.1-MD *) <<"A","1",".","1","-","M","D">>, (* R1.2-D *) <<"R","1",".","2","-","D">>, (* A1.1-md *) <<"A","1",".","1","-","m","d">>, (* A2 *) <<"A","2">>, (* F5-D *) <<"F","5","-","D">>, (* F1-D-MD *) <<"F","1","-","D","-","M","D">>,
     (* A1.1-M *) <<"A","1",".","1","-","M">>}

NpDeclaration(question_id, resource_label) ==
    [question |-> None, question_id |-> question_id, resource_label |-> resource_label,
     resource_uri |-> (* https://e.x/ARK *) <<"h","t","t","p","s",":","/","/","e",".","x","/","A","R","K">>, resource_type |-> (* current *) <<"c","u","r","r","e","n","t">>]

NpDeclarations ==
    {NpDeclaration(question_id, resource_label) :
        question_id \in NpQuestionIds, resource_label \in {None, (* Archival Key *) <<"A","r","c","h","i","v","a","l"," ","K","e","y">>}}

\* JSON-sourced records: a known and an unknown principle, both types, and
\* records without a type or without a principle
JsonRecord(principle, data_type) ==
    [question_id |-> (* FIP-Question- *) <<"F","I","P","-","Q","u","e","s","t","i","o","n","-">> \o principle, resource_label |-> (* ARK *) <<"A","R","K">>,
     resource_uri |-> (* https://ark.example *) <<"h","t","t","p","s",":","/","/","a","r","k",".","e","x","a","m","p","l","e">>, resource_type |-> (* current *) <<"c","u","r","r","e","n","t">>,
     principle |-> principle, data_type |-> data_type]

JsonDeclarations ==
    {JsonRecord(principle, data_type) :
        principle \in {(* A2 *) <<"A","2">>, (* R1.2 *) <<"R","1",".","2">>, (* F9 *) <<"F","9">>}, data_type \in {DataStr, MetadataStr}}
    \cup {[resource_label |-> (* ARK *) <<"A","R","K">>, principle |-> (* A2 *) <<"A","2">>],
          [resource_label |-> (* ARK *) <<"A","R","K">>, data_type |-> DataStr]}

InitOrganize ==
    /\ Idle
    /\ pc = "call_organizer"
    /\ ret = <<>>
    /\ arg \in [fn : {"organize_by_principle"},
                declarations : SeqsUpTo(NpDeclarations, MaxDecls)]
               \cup [fn : {"organize_by_principle_from_json"},
                     declarations : SeqsUpTo(JsonDeclarations, MaxDecls)]

CallOrganize ==
    /\ pc = "call_organizer"
    /\ arg.fn = "organize_by_principle"
    /\ Return(organize_by_principle(arg.declarations))

CallOrganizeJson ==
    /\ pc = "call_organizer"
    /\ arg.fn = "organize_by_principle_from_json"
    /\ Return(organize_by_principle_from_json(arg.declarations))

NextOrganize ==
    \/ CallOrganize
    \/ CallOrganizeJson

SpecOrganize == InitOrganize /\ [][NextOrganize]_vars

\* declaration graphs for the parser: at most one question quad, whose
\* predicate is the question URI or a case variant of it, and whose object
\* is a namespace followed by at most MaxTail of the pieces "/", "F1", "-D"
\* and "x"; with or without a quad that declares a resource
TailPieces == {<<"/">>, (* F1 *) <<"F","1">>, (* -D *) <<"-","D">>, <<"x">>}

QuestionTails == {ConcatAll(pieces) : pieces \in SeqsUpTo(TailPieces, MaxTail)}

QuestionObjects ==
    {(* http://e.x *) <<"h","t","t","p",":","/","/","e",".","x">> \o tail : tail \in QuestionTails}
    \cup {FIP \o QPrefix \o tail : tail \in QuestionTails}

QuestionPredicates ==
    {fip_predicates.refers_to_question, (* http://e.x/Refers-To-Question *) <<"h","t","t","p",":","/","/","e",".","x","/","R","e","f","e","r","s","-","T","o","-","Q","u","e","s","t","i","o","n">>}

ResourceQuad ==
    Quad(Subject, fip_predicates.declares_planned_use_of, (* https://e.x/v#Open_ID *) <<"h","t","t","p","s",":","/","/","e",".","x","/","v","#","O","p","e","n","_","I","D">>,
         Assertion, FALSE)

ParserGraphs ==
    {question \cup resource :
        question \in {{}} \cup {{Quad(Subject, p, o, Assertion, FALSE)} :
                                   p \in QuestionPredicates, o \in QuestionObjects},
        resource \in {{}, {ResourceQuad}}}

InitParse ==
    /\ Idle
    /\ pc = "call_parser"
    /\ ret = <<>>
    /\ arg \in [quads : ParserGraphs, debug : BOOLEAN]

CallParse ==
    /\ pc = "call_parser"
    /\ \E qs \in Iterations(arg.quads) : Return(parse_declaration(qs, arg.debug))

SpecParse == InitParse /\ [][CallParse]_vars

\* JSON documents for the JSON pipeline: at most MaxReplies replies, each
\* with or without a path that names a question (as it is in the table, in
\* lower case after a prefix, suffix-less, or unknown) and with an answer
\* that is an object with a list of items, an object without one, or no
\* object; an item is an object with label and uri, one with name and url,
\* or a string
ItemArk == [label |-> (* ARK *) <<"A","R","K">>, uri |-> (* https://ark.example *) <<"h","t","t","p","s",":","/","/","a","r","k",".","e","x","a","m","p","l","e">>]
ItemDoi == [name |-> (* DOI *) <<"D","O","I">>, url |-> (* https://doi.example *) <<"h","t","t","p","s",":","/","/","d","o","i",".","e","x","a","m","p","l","e">>]

JsonPaths ==
    {(* FIP-Question-F1-D *) <<"F","I","P","-","Q","u","e","s","t","i","o","n","-","F","1","-","D">>, (* p1.fip-question-f1-md *) <<"p","1",".","f","i","p","-","q","u","e","s","t","i","o","n","-","f","1","-","m","d">>, (* FIP-Question-R1.2-MD *) <<"F","I","P","-","Q","u","e","s","t","i","o","n","-","R","1",".","2","-","M","D">>,
     (* FIP-Question-A2 *) <<"F","I","P","-","Q","u","e","s","t","i","o","n","-","A","2">>, (* FIP-Question-F9-D *) <<"F","I","P","-","Q","u","e","s","t","i","o","n","-","F","9","-","D">>}

JsonAnswers ==
    {[items |-> <<ItemArk>>], [items |-> <<ItemDoi, NotADict, ItemArk>>],
     [comment |-> (* none *) <<"n","o","n","e">>], NotADict}

JsonReplies ==
    {[path |-> path, answer |-> answer] : path \in JsonPaths, answer \in JsonAnswers}
    \cup {[answer |-> [items |-> <<ItemArk>>]]}

JsonDocuments ==
    {[name |-> (* Test FIP *) <<"T","e","s","t"," ","F","I","P">>, replies |-> replies] :
        replies \in SeqsUpTo(JsonReplies, MaxReplies)}
    \cup {[name |-> (* Test FIP *) <<"T","e","s","t"," ","F","I","P">>]}

InitJson ==
    /\ RunInit
    /\ NoFunction
    /\ argv = [has_path |-> TRUE, fetch |-> FALSE, debug |-> FALSE, local |-> FALSE]
    /\ file \in {File(TRUE, TRUE, JsonText(doc)) : doc \in JsonDocuments}
                \cup {File(TRUE, TRUE, Malformed)}
    /\ web = [index |-> {}, decl |-> {}]

SpecJson == InitJson /\ [][RunJson]_vars

\* the two pipelines on one question of the table: a declaration whose
\* question id is what follows "FIP-Question-" in the key is given to
\* organize_by_principle, and then a document with one reply whose path is
\* the key is given to read_fip_from_json and organize_by_principle_from_json
ItemRor == [label |-> (* ROR *) <<"R","O","R">>, uri |-> (* https://ror.example *) <<"h","t","t","p","s",":","/","/","r","o","r",".","e","x","a","m","p","l","e">>]

ClassifyInputs == [key : 1..Len(FIP_QUESTIONS), item : {ItemArk, ItemRor}]

ClassifyDeclaration(key, item) ==
    [question |-> FIP \o key, question_id |-> SubSeq(key, Len(QPrefix) + 1, Len(key)),
     resource_label |-> item.label, resource_uri |-> item.uri,
     resource_type |-> (* current *) <<"c","u","r","r","e","n","t">>]

ClassifyDocument(key, item) ==
    [name |-> (* Test FIP *) <<"T","e","s","t"," ","F","I","P">>,
     replies |-> << [path |-> key, answer |-> [items |-> <<item>>]] >>]

InitClassify ==
    /\ Idle
    /\ pc = "call_organizer"
    /\ ret = <<>>
    /\ arg \in ClassifyInputs

CallNpOrganizer ==
    /\ pc = "call_organizer"
    /\ pc' = "call_json_pipeline"
    /\ ret' = [np |-> organize_by_principle(
                          <<ClassifyDeclaration(FIP_QUESTIONS[arg.key].key, arg.item)>>)]
    /\ UNCHANGED <<arg, argv, file, web, fip_info, fetch, graph, decl_uris, i, declarations,
                   organized, output, exit_code, traceback, gets, fetched>>

CallJsonPipeline ==
    /\ pc = "call_json_pipeline"
    /\ LET r == read_fip_from_json(ClassifyDocument(FIP_QUESTIONS[arg.key].key, arg.item))
       IN  Return([np |-> ret.np,
                   json |-> organize_by_principle_from_json(r.declarations)])

NextClassify ==
    \/ CallNpOrganizer
    \/ CallJsonPipeline

SpecClassify == InitClassify /\ [][NextClassify]_vars

\* ------------------------------------------------------------------ claims
NoDuplicates(list) == \A a, b \in 1..Len(list) : list[a] = list[b] => a = b

Min(a, b) == IF a < b THEN a ELSE b

\* what follows the last "/" of s
LastSegment(s) == SubSeq(s, SetMax({k \in 1..Len(s) : s[k] = "/"} \cup {0}) + 1, Len(s))

\* a call of fetch_nanopub is under way, or has just returned to its caller
InFetch == pc \in {"fetch_index", "fetch_decl"}
FetchReturned == pc \in {"index_returned", "decl_returned"}

\* the answer to a GET was HTTP 200; it was HTTP 200 with a well-formed body
Answered200(resp) == ~resp.raised /\ resp.status_code = 200
Parsed200(resp) == Answered200(resp) /\ resp.text.kind # "malformed"

\* the candidate URLs of a nanopublication URI, in the order of the claim
C1_Candidates(uri) ==
    << uri \o (* .trig *) <<".","t","r","i","g">>,
       (* https://np.petapico.org/ *) <<"h","t","t","p","s",":","/","/","n","p",".","p","e","t","a","p","i","c","o",".","o","r","g","/">> \o LastSegment(uri) \o (* .trig *) <<".","t","r","i","g">>,
       (* https://server.np.trustyuri.net/ *) <<"h","t","t","p","s",":","/","/","s","e","r","v","e","r",".","n","p",".","t","r","u","s","t","y","u","r","i",".","n","e","t","/">> \o LastSegment(uri) \o (* .trig *) <<".","t","r","i","g">>,
       (* https://w3id.org/np/ *) <<"h","t","t","p","s",":","/","/","w","3","i","d",".","o","r","g","/","n","p","/">> \o LastSegment(uri) \o (* .trig *) <<".","t","r","i","g">> >>

\* C1 as stated: fetch_nanopub requests its four candidates in the fixed
\* order, each at most once, and the first candidate that answers HTTP 200
\* ends the fetch, which returns the graph parsed from that body.
C1_First200Wins ==
    LET a == fetch.attempts
    IN  InFetch \/ FetchReturned =>
            /\ Len(a) <= 4
            /\ \A j \in 1..Len(a) : a[j].url = C1_Candidates(fetch.uri)[j]
            /\ InFetch => fetch.k = Len(a) + 1
            /\ \A j \in 1..Len(a) :
                   Answered200(a[j].resp) =>
                       /\ j = Len(a)
                       /\ FetchReturned
                       /\ ~graph.is_none
                       /\ graph.quads = ParseTrig(a[j].resp.text)

\* C1, amended: fetch_nanopub requests its four candidates in the fixed
\* order, each at most once, and the first candidate that answers HTTP 200
\* with a body that parses ends the fetch, which returns the graph parsed
\* from that body; a 200 whose body does not parse is passed over like a
\* failure.
C1_FirstParsed200Wins ==
    LET a == fetch.attempts
    IN  InFetch \/ FetchReturned =>
            /\ Len(a) <= 4
            /\ \A j \in 1..Len(a) : a[j].url = C1_Candidates(fetch.uri)[j]
            /\ InFetch => fetch.k = Len(a) + 1
            /\ \A j \in 1..Len(a) :
                   Parsed200(a[j].resp) =>
                       /\ j = Len(a)
                       /\ FetchReturned
                       /\ ~graph.is_none
                       /\ graph.quads = ParseTrig(a[j].resp.text)
            /\ FetchReturned /\ ~graph.is_none => Parsed200(a[Len(a)].resp)

\* the fetch of the index has returned candidate 3's graph after candidate 1
\* answered 404 and the GET of candidate 2 raised; candidate 4 was not
\* requested
C1_Witness ==
    /\ pc = "index_returned"
    /\ Len(fetch.attempts) = 3
    /\ fetch.attempts[1].resp.status_code = 404
    /\ fetch.attempts[2].resp.raised
    /\ Answered200(fetch.attempts[3].resp)
    /\ fetch.attempts[3].url = (* https://server.np.trustyuri.net/RAi.trig *) <<"h","t","t","p","s",":","/","/","s","e","r","v","e","r",".","n","p",".","t","r","u","s","t","y","u","r","i",".","n","e","t","/","R","A","i",".","t","r","i","g">>
    /\ graph = GraphOf(IndexQuads({1}))

\* C2 as stated: fetch_nanopub never raises, returns None exactly when all
\* four candidates failed, a candidate failing when its GET raised or
\* answered a status other than 200, and a candidate that answers 200 ends
\* the fetch with a graph.
C2_NoneIffNo200 ==
    LET a == fetch.attempts
        Failed(resp) == resp.raised \/ resp.status_code # 200
    IN  /\ traceback => fetched = <<>>
        /\ FetchReturned =>
               /\ graph.is_none <=> (Len(a) = 4 /\ \A j \in 1..4 : Failed(a[j].resp))
               /\ Answered200(a[Len(a)].resp) => ~graph.is_none

\* C2, amended: fetch_nanopub never raises and returns None exactly when
\* all four candidates failed, a candidate failing when its GET raised,
\* answered a status other than 200, or answered 200 with a body that does
\* not parse; a candidate that answers 200 with a body that parses ends the
\* fetch with a graph.
C2_NoneIffAllFailed ==
    LET a == fetch.attempts
        Failed(resp) == resp.raised \/ resp.status_code # 200 \/ resp.text.kind = "malformed"
    IN  /\ traceback => fetched = <<>>
        /\ FetchReturned =>
               /\ graph.is_none <=> (Len(a) = 4 /\ \A j \in 1..4 : Failed(a[j].resp))
               /\ ~Failed(a[Len(a)].resp) => ~graph.is_none

\* a fetch has returned None after four candidates, one of which answered
\* 200 with a body that does not parse and one of which raised
C2_Witness ==
    /\ FetchReturned
    /\ graph.is_none
    /\ Len(fetch.attempts) = 4
    /\ \E j \in 1..4 : Answered200(fetch.attempts[j].resp)
    /\ \E j \in 1..4 : fetch.attempts[j].resp.raised

C3_Warning == Line("warning_could_not_fetch_index", <<>>)

\* C3: a GET that fails prints nothing; the step that follows the return of
\* the index fetch prints the 'Could not fetch declaration index' warning
\* only if all four candidates were requested and none answered 200; and if
\* some candidate answered 200 and parsed, that step prints no warning and
\* goes on to resolve the index.
C3_WarningOnlyWithout200 ==
    [][ LET a == fetch.attempts
            warned == C3_Warning \in Range(output')
        IN  /\ InFetch => output' = output
            /\ pc = "index_returned" =>
                   /\ warned => Len(a) = 4 /\ \A j \in 1..4 : ~Answered200(a[j].resp)
                   /\ (\E j \in 1..Len(a) : Parsed200(a[j].resp)) =>
                          /\ ~warned
                          /\ Line("fetched_index", <<>>) \in Range(output')
      ]_vars

\* the four index-membership URIs, as the claim names them
C4_KnownPredicates ==
    {(* http://purl.org/nanopub/x/includesElement *) <<"h","t","t","p",":","/","/","p","u","r","l",".","o","r","g","/","n","a","n","o","p","u","b","/","x","/","i","n","c","l","u","d","e","s","E","l","e","m","e","n","t">>,
     (* http://purl.org/nanopub/x/hasElement *) <<"h","t","t","p",":","/","/","p","u","r","l",".","o","r","g","/","n","a","n","o","p","u","b","/","x","/","h","a","s","E","l","e","m","e","n","t">>,
     (* http://purl.org/nanopub/x/includes *) <<"h","t","t","p",":","/","/","p","u","r","l",".","o","r","g","/","n","a","n","o","p","u","b","/","x","/","i","n","c","l","u","d","e","s">>,
     (* https://w3id.org/fair/fip/terms/has-declaration *) <<"h","t","t","p","s",":","/","/","w","3","i","d",".","o","r","g","/","f","a","i","r","/","f","i","p","/","t","e","r","m","s","/","h","a","s","-","d","e","c","l","a","r","a","t","i","o","n">>}

\* C4: the list extract_declarations_from_index returns has no duplicates,
\* its elements are exactly the objects of the quads, in any context, whose
\* predicate equals one of the four known URIs, and the debug flag does not
\* change the elements.
C4_ResolverReturnsTheSet ==
    pc = "returned" =>
        /\ NoDuplicates(ret.result)
        /\ Range(ret.result) = {q.o : q \in {x \in arg.quads : x.p \in C4_KnownPredicates}}
        /\ Range(ret.result) =
               Range(extract_declarations_from_index(GraphOf(arg.quads), ~arg.debug).result)

\* two quads in different contexts list the same declaration, and the
\* resolver has returned it once
C4_Witness ==
    /\ pc = "returned"
    /\ Cardinality(arg.quads) = 2
    /\ \E q1, q2 \in arg.quads :
          /\ q1.g # q2.g /\ q1.o = q2.o /\ q1.p \in C4_KnownPredicates
          /\ q2.p \in C4_KnownPredicates
    /\ Len(ret.result) = 1

\* the 15 principle keys, as the claim lists them
C5_Keys ==
    {(* F1 *) <<"F","1">>, (* F2 *) <<"F","2">>, (* F3 *) <<"F","3">>, (* F4 *) <<"F","4">>, (* A1 *) <<"A","1">>, (* A1.1 *) <<"A","1",".","1">>, (* A1.2 *) <<"A","1",".","2">>, (* A2 *) <<"A","2">>,
     (* I1 *) <<"I","1">>, (* I2 *) <<"I","2">>, (* I3 *) <<"I","3">>, (* R1 *) <<"R","1">>, (* R1.1 *) <<"R","1",".","1">>, (* R1.2 *) <<"R","1",".","2">>, (* R1.3 *) <<"R","1",".","3">>}

\* C5: whatever list either organizer is given, the table it returns has
\* exactly the 15 principle keys, each mapped to exactly a data list and a
\* metadata list.
C5_FifteenKeysTwoLists ==
    pc = "returned" =>
        /\ DOMAIN ret = C5_Keys
        /\ \A key \in C5_Keys :
              /\ DOMAIN ret[key] = {"data", "metadata"}
              /\ DOMAIN ret[key].data = 1..Len(ret[key].data)
              /\ DOMAIN ret[key].metadata = 1..Len(ret[key].metadata)

\* organize_by_principle has returned from a list with a record of the
\* unknown principle F5 and a record of A2, and the JSON organizer from a
\* list with a record of the unknown principle F9
C5_Witness ==
    /\ pc = "returned"
    /\ Len(arg.declarations) = 2
    /\ \/ /\ arg.fn = "organize_by_principle"
          /\ arg.declarations[1].question_id = (* F5-D *) <<"F","5","-","D">>
          /\ arg.declarations[2].question_id = (* A2 *) <<"A","2">>
          /\ Len(ret[(* A2 *) <<"A","2">>].data) = 1
       \/ /\ arg.fn = "organize_by_principle_from_json"
          /\ arg.declarations[1].principle = (* F9 *) <<"F","9">>
          /\ "principle" \notin DOMAIN arg.declarations[2]

\* the principle and the type suffix of a question id: what precedes and
\* what follows its last "-"; an id without "-" is all principle
C6_LastDash(q_id) == SetMax({k \in 1..Len(q_id) : q_id[k] = "-"} \cup {0})
C6_Principle(q_id) ==
    IF C6_LastDash(q_id) = 0 THEN q_id ELSE SubSeq(q_id, 1, C6_LastDash(q_id) - 1)
C6_Suffix(q_id) ==
    IF C6_LastDash(q_id) = 0 THEN <<>> ELSE SubSeq(q_id, C6_LastDash(q_id) + 1, Len(q_id))

\* the entry the organizer makes of a record
C6_Entry(decl) ==
    [label |-> IF Truthy(decl.resource_label) THEN decl.resource_label ELSE decl.resource_uri,
     uri |-> decl.resource_uri,
     type |-> decl.resource_type]

\* the entries of the records of the input that belong in a list of a
\* bucket, in input order; Metadata tells which suffixes mean metadata
C6_Expected(key, list, Metadata(_)) ==
    LET Belongs(decl) ==
            /\ Truthy(decl.question_id)
            /\ C6_Principle(decl.question_id) = key
            /\ (list = "metadata") <=> Metadata(C6_Suffix(decl.question_id))
        records == SelectSeq(arg.declarations, Belongs)
    IN  [k \in 1..Len(records) |-> C6_Entry(records[k])]

C6_IsMD(suffix) == suffix = (* MD *) <<"M","D">>
C6_IsMDAnyCase(suffix) == Upper(suffix) = (* MD *) <<"M","D">>

\* C6 as stated: organize_by_principle splits a question id on its last
\* "-"; every list of every bucket holds, in input order and once each, the
\* entries of the records whose principle part names the bucket, the
\* metadata list those whose suffix is MD and the data list the others.
C6_LastDashSplit ==
    pc = "returned" /\ arg.fn = "organize_by_principle" =>
        \A key \in C5_Keys, list \in {"data", "metadata"} :
            ret[key][list] = C6_Expected(key, list, C6_IsMD)

\* C6, amended: organize_by_principle splits a question id on its last "-";
\* every list of every bucket holds, in input order and once each, the
\* entries of the records whose principle part names the bucket, the
\* metadata list those whose suffix is MD in any letter case (MD, md, Md,
\* mD) and the data list the others.
C6_LastDashSplitAnyCase ==
    pc = "returned" /\ arg.fn = "organize_by_principle" =>
        \A key \in C5_Keys, list \in {"data", "metadata"} :
            ret[key][list] = C6_Expected(key, list, C6_IsMDAnyCase)

\* A1.1-MD and R1.2-D, in this order, have landed in A1.1/metadata and
\* R1.2/data
C6_Witness ==
    /\ pc = "returned"
    /\ arg.fn = "organize_by_principle"
    /\ Len(arg.declarations) = 2
    /\ arg.declarations[1].question_id = (* A1.1-MD *) <<"A","1",".","1","-","M","D">>
    /\ arg.declarations[2].question_id = (* R1.2-D *) <<"R","1",".","2","-","D">>
    /\ Len(ret[(* A1.1 *) <<"A","1",".","1">>].metadata) = 1
    /\ Len(ret[(* R1.2 *) <<"R","1",".","2">>].data) = 1

\* the question id the claim derives from the object of a question quad
C7_Expected(o_str) ==
    LET marker == (* FIP-Question- *) <<"F","I","P","-","Q","u","e","s","t","i","o","n","-">>
        at == Occurrences(o_str, marker)
        segment == LastSegment(o_str)
    IN  IF at # {}
        THEN SubSeq(o_str, SetMax(at) + Len(marker), Len(o_str))
        ELSE IF segment # <<>> /\ segment[1] \in {"F", "A", "I", "R"}
             THEN segment
             ELSE None

\* C7: the question id parse_declaration returns for a graph with a
\* refers-to-question quad is what follows 'FIP-Question-' in the object
\* when the object contains that marker, else the object's last path
\* segment when that segment starts with F, A, I or R, else null; and null
\* for a graph without such a quad.
C7_QuestionIdRule ==
    pc = "returned" =>
        /\ \A q \in arg.quads :
               q.p = (* https://w3id.org/fair/fip/terms/refers-to-question *) <<"h","t","t","p","s",":","/","/","w","3","i","d",".","o","r","g","/","f","a","i","r","/","f","i","p","/","t","e","r","m","s","/","r","e","f","e","r","s","-","t","o","-","q","u","e","s","t","i","o","n">> =>
                   ret.result.question_id = C7_Expected(q.o)
        /\ (\A q \in arg.quads : q.p = ResourceQuad.p) => ret.result.question_id = None

\* the principle part of a question id is one of the 15 keys
C8_Recognizable(q_id) == Truthy(q_id) /\ C6_Principle(q_id) \in C5_Keys

\* the declaration has an entry in the table
C8_HasEntry(decl, table) ==
    \E key \in DOMAIN table, list \in {"data", "metadata"} :
        \E k \in 1..Len(table[key][list]) : table[key][list][k].uri = decl.resource_uri

\* the declaration parsed from the graph a declaration fetch returned
C8_Parsed == parse_declaration(Iterate(graph.quads), FALSE).result

\* C8 as stated: when a --fetch run has ended, every declaration that was
\* fetched and parsed with a non-null question id has an entry in the table
\* that is rendered, and every key of that table is one of the 15.
C8_NothingDropped ==
    pc = "exited" /\ exit_code = 0 /\ argv.fetch /\ ~file.is_json =>
        /\ DOMAIN organized \subseteq C5_Keys
        /\ \A k \in 1..Len(declarations) :
               declarations[k].question_id # None => C8_HasEntry(declarations[k], organized)

\* C8, amended: a declaration that was fetched and parsed with a non-empty
\* question id whose principle part (what precedes its last "-") is one of
\* the 15 keys is kept when its fetch returns, and when the run ends every
\* declaration kept with such an id has an entry in the table that is
\* rendered, the entries are as many as those declarations, and every key
\* of the table is one of the 15.
C8_RecognizableKept ==
    [][ /\ (pc = "decl_returned" /\ GraphTruthy(graph)
               /\ C8_Recognizable(C8_Parsed.question_id))
             => declarations' = Append(declarations, C8_Parsed)
        /\ (pc' = "exited" /\ exit_code' = 0 /\ argv.fetch /\ ~file.is_json) =>
               LET kept == SelectSeq(declarations',
                                     LAMBDA decl : C8_Recognizable(decl.question_id))
                   entries == ConcatAll([k \in 1..Len(FAIR_PRINCIPLES) |->
                                  organized'[FAIR_PRINCIPLES[k]].data \o
                                  organized'[FAIR_PRINCIPLES[k]].metadata])
               IN  /\ DOMAIN organized' = C5_Keys
                   /\ \A k \in 1..Len(kept) : C8_HasEntry(kept[k], organized')
                   /\ Len(entries) = Len(kept)
                   /\ \A k \in 1..Len(entries) :
                          Line("resource", entries[k].label) \in Range(output')
      ]_vars

\* a run has ended with a declaration of F1 in the table
C8_Witness ==
    /\ pc = "exited"
    /\ exit_code = 0
    /\ argv.fetch
    /\ \E k \in 1..Len(declarations) : declarations[k].question_id = (* F1-D *) <<"F","1","-","D">>
    /\ Len(organized[(* F1 *) <<"F","1">>].data) >= 1

\* C9: declaration fetches begin only after the fetch of the index has
\* returned, go one at a time through the first min(n, 50) of the n URIs the
\* index yields, each fetched once, every fetch issuing at most its four
\* GETs; so a run issues at most 4 * (1 + min(n, 50)) GETs.
C9_SequentialCappedFetches ==
    LET n == Len(decl_uris)
        started == Len(fetched) - 1
    IN  /\ (pc \in {"fetch_decl", "decl_returned"} =>
               /\ started >= 1
               /\ fetch.uri = fetched[Len(fetched)]
               /\ i = started)
        /\ (pc \in {"start", "fetch_index", "index_returned"} => Len(fetched) <= 1 /\ n = 0)
        /\ started <= Min(n, 50)
        /\ \A j \in 2..Len(fetched) : fetched[j] = decl_uris[j - 1]
        /\ NoDuplicates(fetched)
        /\ Len(fetch.attempts) <= 4
        /\ NoDuplicates([j \in 1..Len(fetch.attempts) |-> fetch.attempts[j].url])
        /\ gets <= 4 * (1 + Min(n, 50))
        /\ (pc = "exited" /\ exit_code = 0 /\ fetched # <<>> /\ decl_uris # <<>>
                => started = Min(n, 50))

\* the index yields more than 50 URIs, and the run has ended after 50
\* declaration fetches of four GETs each
C9_Witness ==
    /\ pc = "exited"
    /\ Len(decl_uris) > 50
    /\ Len(fetched) = 51
    /\ gets = 4 * 51

\* the JSON file cannot be read: json.load raises, or the document is not
\* an object
C10_JsonFails == JsonLoadRaises(file.text) \/ ~IsDict(JsonLoad(file.text))

\* C10: a run that has ended has ended with an exit code and not with an
\* uncaught exception, and the code is 1 exactly when no path was given,
\* the path names no file, or the file is a JSON file that cannot be read;
\* it is 0 otherwise.
C10_ExitCodes ==
    pc = "exited" =>
        /\ ~traceback
        /\ exit_code \in {0, 1}
        /\ exit_code = 1 <=>
               (~argv.has_path \/ ~file.exists \/ (file.is_json /\ C10_JsonFails))

\* the graph has no quad whose predicate is one of the four known URIs
C11_NoMatch(g) == \A q \in g.quads : q.p \notin C4_KnownPredicates

C11_Warning == Line("warning_no_declarations", <<>>)

\* the lines printed hold the header of the report and no principle section
C11_HeaderOnly(lines) ==
    /\ Line("title", fip_info.label) \in Range(lines)
    /\ Line("resources_by_principle", <<>>) \in Range(lines)
    /\ Line("end_of_report", <<>>) \in Range(lines)
    /\ \A k \in 1..Len(lines) : lines[k].ev \notin {"section", "for_data", "for_metadata",
                                                    "resource", "uri"}

C12_Names(path, key) == Contains(Lower(path), Lower(key))

\* the replies of the document in the file
C12_Replies == Get(JsonLoad(file.text), "replies", <<>>)

\* the items of a reply that are objects, each as the label and URI it
\* carries (label, name or id; uri or url)
C12_ItemsOf(reply) ==
    LET answer == Get(reply, "answer", [items |-> <<>>])
        items == IF IsDict(answer) THEN Get(answer, "items", <<>>) ELSE <<>>
        dicts == SelectSeq(items, IsDict)
    IN  [k \in 1..Len(dicts) |->
            [label |-> IF "label" \in DOMAIN dicts[k] THEN dicts[k].label
                       ELSE IF "name" \in DOMAIN dicts[k] THEN dicts[k].name
                       ELSE dicts[k].id,
             uri |-> IF "uri" \in DOMAIN dicts[k] THEN dicts[k].uri ELSE dicts[k].url]]

\* the items of the replies whose path names one of the keys, in order
C12_ItemsNaming(keys) ==
    ConcatAll([k \in 1..Len(C12_Replies) |->
        IF \E key \in keys : C12_Names(Get(C12_Replies[k], "path", <<>>), key)
        THEN C12_ItemsOf(C12_Replies[k])
        ELSE <<>>])

\* the entries of a list of the table, each as its label and URI
C12_Entries(list) == [k \in 1..Len(list) |-> [label |-> list[k].label, uri |-> list[k].uri]]

C12_KnownKeys == {FIP_QUESTIONS[k].key : k \in 1..Len(FIP_QUESTIONS)}

\* C12: when the JSON pipeline has printed its report, the DATA list of a
\* principle P holds exactly the object items of the replies whose path
\* names the known question FIP-Question-P-D, and its METADATA list those
\* of FIP-Question-P-MD, each once with its label and URI and in order; the
\* table holds as many entries as there are object items in replies that
\* name a known question; and the report has the section of a principle
\* exactly when one of its two lists holds an entry.
C12_JsonEntries ==
    pc = "exited" /\ exit_code = 0 =>
        /\ \A P \in C5_Keys \ {(* A2 *) <<"A","2">>} :
              /\ C12_Entries(organized[P].data)
                     = C12_ItemsNaming({QPrefix \o P \o (* -D *) <<"-","D">>} \cap C12_KnownKeys)
              /\ C12_Entries(organized[P].metadata)
                     = C12_ItemsNaming({QPrefix \o P \o (* -MD *) <<"-","M","D">>} \cap C12_KnownKeys)
        /\ Len(ConcatAll([k \in 1..Len(FAIR_PRINCIPLES) |->
                   organized[FAIR_PRINCIPLES[k]].data \o organized[FAIR_PRINCIPLES[k]].metadata]))
               = Len(C12_ItemsNaming(C12_KnownKeys))
        /\ \A P \in C5_Keys :
               Line("section", P) \in Range(output)
                   <=> (organized[P].data # <<>> \/ organized[P].metadata # <<>>)
        /\ \A k \in 1..Len(output) :
               output[k].ev = "section" => output[k].arg \in C5_Keys

\* the document with the single reply FIP-Question-F1-D and the item ARK
\* has been reported: F1 has one DATA entry, and F1 is the only section
C12_Witness ==
    /\ pc = "exited"
    /\ exit_code = 0
    /\ C12_Replies = << [path |-> (* FIP-Question-F1-D *) <<"F","I","P","-","Q","u","e","s","t","i","o","n","-","F","1","-","D">>, answer |-> [items |-> <<ItemArk>>]] >>
    /\ C12_Entries(organized[(* F1 *) <<"F","1">>].data) = <<ItemArk>>
    /\ organized[(* F1 *) <<"F","1">>].metadata = <<>>
    /\ {output[k].arg : k \in {j \in 1..Len(output) : output[j].ev = "section"}} = {(* F1 *) <<"F","1">>}
    /\ Line("for_data", <<>>) \in Range(output)
    /\ Line("resource", (* ARK *) <<"A","R","K">>) \in Range(output)
    /\ Line("uri", (* https://ark.example *) <<"h","t","t","p","s",":","/","/","a","r","k",".","e","x","a","m","p","l","e">>) \in Range(output)

\* C13: a run given --local, and a run on a non-JSON file without --fetch,
\* issues no HTTP GET; a GET is issued only in a run with --fetch on a
\* non-JSON file whose header holds a non-empty declaration index.
C13_LocalOnly ==
    /\ (argv.local \/ (argv.has_path /\ ~file.is_json /\ ~argv.fetch)) => gets = 0
    /\ gets > 0 =>
           /\ argv.fetch
           /\ ~file.is_json
           /\ Truthy(fip_info.declaration_index)

\* where the resource with the URI is in the table: the principles and
\* lists that hold an entry for it
C14_Places(table, uri) ==
    {<<P, list>> \in (DOMAIN table) \X {"data", "metadata"} :
        \E k \in 1..Len(table[P][list]) : table[P][list][k].uri = uri}

\* C14: for every key of FIP_QUESTIONS, the nanopublication declaration
\* with the question id of the key and the JSON reply with the key as its
\* path have their resource placed once, in the same principle and the same
\* list.
C14_SameClassification ==
    pc = "returned" =>
        /\ Cardinality(C14_Places(ret.np, arg.item.uri)) = 1
        /\ C14_Places(ret.np, arg.item.uri) = C14_Places(ret.json, arg.item.uri)
====
